---- MODULE Spec2Model ----
(***************************************************************************)
(* Model of the dataset builder service: the document pipeline             *)
(* (models/data_loader/document_processor.py and its sibling               *)
(* "document_processor copy.py"), the dataset router                       *)
(* (routers/dataset.py) and the dataset manager the router calls.          *)
(*                                                                         *)
(* Texts are sequences of one-character strings.  Ids are strings built    *)
(* with the same concatenation the f-strings of the source perform.        *)
(***************************************************************************)
EXTENDS Integers, Sequences, FiniteSets, TLC

(***************************************************************************)
(* Bounds of the model.                                                    *)
(***************************************************************************)
\* longest text held by an object / annotation store in the pipeline checks
MaxTextLen == 3
\* how often the pipeline is run on one document in the pipeline checks
MaxRuns == 2
\* background tasks the executor holds at one time
MaxTasks == 2
\* highest ordinal add_segment hands out in the store checks
MaxOrdinal == 3
\* largest offset and limit a client asks for
MaxPage == 2

(***************************************************************************)
(* Universe of inputs.                                                     *)
(***************************************************************************)
FF == "\f"
SP == " "
Chars == {"a", "b", SP, FF}
\* ids a client makes up, and ids uuid4 may return
ClientIds == {"d1"}
Uuids == {"d2"}
DatasetIds == ClientIds \cup Uuids
Uids == {"u1", "u2"}
Urls == {"x", "y"}
\* "txt" stands for any type that has no handler
Types == {"pdf", "word", "annotated_data", "txt"}
Processors == {"document_processor", "document_processor copy"}

RECURSIVE TextsOfLen(_)
TextsOfLen(n) ==
    IF n = 0 THEN {<<>>}
    ELSE {Append(t, c) : t \in TextsOfLen(n - 1), c \in Chars}
Texts == UNION {TextsOfLen(n) : n \in 0..MaxTextLen}

\* split_option is a dict; a key may be missing (dict.get supplies the default)
NoKeys == [k \in {} |-> 0]
SplitOptions ==
    { NoKeys,
      [chunk_size |-> 1, chunk_overlap |-> 0],
      [chunk_size |-> 3, chunk_overlap |-> 1],
      [chunk_size |-> 1, chunk_overlap |-> 1],
      [chunk_size |-> 1, chunk_overlap |-> 2] }

\* models.base.dataset.Document as the API receives it (derived fields at 0)
Documents ==
    [uid : Uids, url : Urls \cup Uids, type : Types, split_option : SplitOptions,
     content_size : {0}, page_size : {0}]

(***************************************************************************)
(* Python string helpers.                                                  *)
(***************************************************************************)
\* str.split(sep) for a one-character sep: n separators give n + 1 parts.
\* parts are the parts closed so far, current the part being read.
RECURSIVE split_rest(_, _, _, _)
split_rest(s, sep, parts, current) ==
    IF s = <<>> THEN Append(parts, current)
    ELSE IF Head(s) = sep THEN split_rest(Tail(s), sep, Append(parts, current), <<>>)
    ELSE split_rest(Tail(s), sep, parts, Append(current, Head(s)))

split(s, sep) == split_rest(s, sep, <<>>, <<>>)

\* sep.join(parts)
RECURSIVE join(_, _)
join(parts, sep) ==
    IF parts = <<>> THEN <<>>
    ELSE IF Len(parts) = 1 THEN parts[1]
    ELSE parts[1] \o <<sep>> \o join(Tail(parts), sep)

Whitespace == {SP, FF}

RECURSIVE lstrip(_)
lstrip(s) == IF s # <<>> /\ s[1] \in Whitespace THEN lstrip(Tail(s)) ELSE s

RECURSIVE rstrip(_)
rstrip(s) ==
    IF s # <<>> /\ s[Len(s)] \in Whitespace THEN rstrip(SubSeq(s, 1, Len(s) - 1)) ELSE s

\* str.strip()
strip(s) == rstrip(lstrip(s))

\* dict.get(key, default)
get(d, key, default) == IF key \in DOMAIN d THEN d[key] ELSE default

\* sys.getsizeof(str): object header of a compact ASCII str plus one byte a char
StrHeader == 49
getsizeof(s) == StrHeader + Len(s)

\* f"{dataset.id}-{document.url}-{page_number}"
urn(dataset_id, locator, page_number) ==
    dataset_id \o "-" \o locator \o "-" \o ToString(page_number)

(***************************************************************************)
(* langchain's CharacterTextSplitter as get_text_splitter configures it:   *)
(* separator " ", lengths counted by the encoder.  The encoder is          *)
(* abstracted to one token a character.                                    *)
(***************************************************************************)
DefaultChunkSize == 100
DefaultChunkOverlap == 0

length_function(s) == Len(s)

\* PDFSplitterOption built from document.split_option, then the splitter;
\* the splitter's constructor raises when the overlap exceeds the chunk size
get_text_splitter(document) ==
    LET size == get(document.split_option, "chunk_size", DefaultChunkSize)
        overlap == get(document.split_option, "chunk_overlap", DefaultChunkOverlap)
    IN  [raised |-> overlap > size, chunk_size |-> size, chunk_overlap |-> overlap]

\* TextSplitter._join_docs: the stripped chunk; the empty text stands for the
\* None it returns for a blank chunk, which the callers drop
join_docs(current_doc) == strip(join(current_doc, SP))

\* the inner while loop of TextSplitter._merge_splits
RECURSIVE pop_splits(_, _, _, _)
pop_splits(splitter, current_doc, total, len) ==
    IF \/ total > splitter.chunk_overlap
       \/ /\ total + len + (IF Len(current_doc) > 0 THEN length_function(<<SP>>) ELSE 0)
                > splitter.chunk_size
          /\ total > 0
    THEN pop_splits(splitter, Tail(current_doc),
                    total - (length_function(current_doc[1])
                             + (IF Len(current_doc) > 1 THEN length_function(<<SP>>) ELSE 0)),
                    len)
    ELSE [current_doc |-> current_doc, total |-> total]

\* TextSplitter._merge_splits, one iteration of its for loop after another
RECURSIVE merge_splits(_, _, _, _, _)
merge_splits(splitter, splits, docs, current_doc, total) ==
    IF splits = <<>>
    THEN LET doc == join_docs(current_doc)
         IN  IF doc = <<>> THEN docs ELSE Append(docs, doc)
    ELSE LET d == Head(splits)
             len == length_function(d)
             full == total + len
                       + (IF Len(current_doc) > 0 THEN length_function(<<SP>>) ELSE 0)
                     > splitter.chunk_size
             flush == full /\ Len(current_doc) > 0
             doc == join_docs(current_doc)
             docs1 == IF flush /\ doc # <<>> THEN Append(docs, doc) ELSE docs
             kept == IF flush THEN pop_splits(splitter, current_doc, total, len)
                     ELSE [current_doc |-> current_doc, total |-> total]
             current1 == Append(kept.current_doc, d)
             total1 == kept.total + len
                         + (IF Len(current1) > 1 THEN length_function(<<SP>>) ELSE 0)
         IN  merge_splits(splitter, Tail(splits), docs1, current1, total1)

\* CharacterTextSplitter.split_text
split_text(splitter, text) ==
    merge_splits(splitter, split(text, SP), <<>>, <<>>, 0)

\* TextSplitter.split_documents: the chunks of every part, in order
RECURSIVE split_documents(_, _)
split_documents(splitter, parts) ==
    IF parts = <<>> THEN <<>>
    ELSE split_text(splitter, Head(parts)) \o split_documents(splitter, Tail(parts))

(***************************************************************************)
(* State.                                                                  *)
(***************************************************************************)
VARIABLES
    processor,    \* which of the two document_processor modules is imported
    gcs,          \* GoogleCloudStorageClient: url -> extracted text of the object
    annotated,    \* AnnotatedDataStorageClient: uid -> transcript
    celery,       \* the task sent to the celery app, with its request and state
    webhook,      \* the latest call of WebhookHandler.update_status
    redis,        \* self.redis of the PromptManagerMixin: key -> stored bytes
    utils,        \* what utils.base.to_string does with None
    prompt,       \* the latest call of a PromptManagerMixin method
    p_dataset,    \* pipeline run: the dataset id handed to process
    p_document,   \* pipeline run: the Document object handed to process
    p_docs,       \* pipeline run: what the latest call of process returned
    p_stored,     \* pipeline run: the segments persisted by the calls so far
    p_prev,       \* pipeline run: p_docs and p_stored as the call before left them
    p_raised,     \* pipeline run: whether the latest call raised
    p_runs,       \* pipeline run: number of calls of process so far
    p_fetched,    \* pipeline run: locators the latest call fetched, in order
    l_documents,  \* dataset load: the documents of the dataset handed to the loader
    datasets,     \* dataset store: dataset id -> its documents, in order
    segments,     \* segment store: segment id -> the stored segment
    next_ordinal, \* <<dataset id, uid>> -> ordinal the next added segment gets
    tasks,        \* work submitted to the ThreadPoolExecutor and not yet ended
    issued,       \* ids uuid4 has returned
    response,     \* the response to the latest request, with the request; none
                  \* once a background task has ended since
    completed,    \* the background task that ended since the latest request, and
                  \* the dataset it found
    assigned      \* <<dataset id, uid, segment id>> of every id a stored document got

pvars == <<p_dataset, p_document, p_docs, p_stored, p_prev, p_raised, p_runs,
          p_fetched, l_documents>>
\* what the handlers of the router never write
promptvars == <<redis, utils, prompt>>
envvars == <<processor, gcs, annotated, celery, webhook, promptvars>>
storevars == <<datasets, segments, next_ordinal, assigned>>
apivars == <<tasks, issued, response, completed>>

(***************************************************************************)
(* Document handlers.                                                      *)
(***************************************************************************)
\* the handlers dict of load_and_split_documents, per module
handlers ==
    IF processor = "document_processor"
    THEN [pdf |-> "PDFHandler", annotated_data |-> "AnnotatedDataHandler"]
    ELSE [pdf |-> "PDFHandler", annotated_data |-> "AnnotatedDataHandler",
          word |-> "WordHandler"]

\* PDFHandler / WordHandler load the object at document.url,
\* AnnotatedDataHandler loads the transcript of document.uid
fetch_content(handler, document) ==
    IF handler = "AnnotatedDataHandler" THEN annotated[document.uid]
    ELSE gcs[document.url]

\* the locator fetch_content reads
fetch_locator(handler, document) ==
    IF handler = "AnnotatedDataHandler" THEN document.uid ELSE document.url

\* split_content without the override of AnnotatedDataHandler
split_content_not_overridden(handler, content) == split(content, FF)

\* DocumentProcessingMixin.split_content, overridden by AnnotatedDataHandler
split_content(handler, content) ==
    IF handler = "AnnotatedDataHandler" THEN <<content>> ELSE split(content, FF)

\* DocumentHandler.generate_metadata, overridden by AnnotatedDataHandler
generate_metadata(handler, document) ==
    IF handler = "AnnotatedDataHandler" THEN [source |-> document.uid]
    ELSE [source |-> document.url]

\* d[key] = value on a dict
setitem(d, key, value) ==
    [k \in DOMAIN d \cup {key} |-> IF k = key THEN value ELSE d[k]]

\* The loop "for page_number, doc in enumerate(docs)" of process.  docs[i].metadata
\* is a reference into heap (the dict objects), so that two docs holding the
\* same dict see each other's writes.
RECURSIVE enumerate_docs(_, _, _, _, _)
enumerate_docs(docs, heap, dataset_id, document, i) ==
    IF i > Len(docs) THEN heap
    ELSE LET ref == docs[i].metadata
             h1 == [heap EXCEPT ![ref] = setitem(@, "page_number", i - 1)]
             h2 == [h1 EXCEPT ![ref] =
                        setitem(@, "urn",
                                urn(dataset_id, document.url, h1[ref]["page_number"]))]
         IN  enumerate_docs(docs, h2, dataset_id, document, i + 1)

\* the docs as values: every metadata reference replaced by the dict it names
deref(docs, heap) ==
    [i \in 1..Len(docs) |->
        [page_content |-> docs[i].page_content, metadata |-> heap[docs[i].metadata]]]

\* DocumentHandler.process of document_processor.py.  split_documents builds every
\* chunk's Document with a deep copy of its part's metadata: one dict a chunk.
process(handler, document, dataset_id) ==
    LET content == fetch_content(handler, document)
        text_splitter == get_text_splitter(document)
        chunks == split_documents(text_splitter, split_content(handler, content))
        docs == [i \in 1..Len(chunks) |-> [page_content |-> chunks[i], metadata |-> i]]
        heap == [i \in 1..Len(chunks) |-> NoKeys]
    IN  IF text_splitter.raised
        THEN [raised |-> TRUE, fetched |-> <<fetch_locator(handler, document)>>,
              docs |-> <<>>, document |-> document]
        ELSE [raised |-> FALSE, fetched |-> <<fetch_locator(handler, document)>>,
              docs |-> deref(docs, enumerate_docs(docs, heap, dataset_id, document, 1)),
              document |-> document]

\* process of "document_processor copy.py" taking a document whose content_size is
\* already set for one that needs no second fetch
process_copy_cached(handler, document, dataset_id) ==
    LET content == IF document.content_size # 0 THEN <<>>
                   ELSE fetch_content(handler, document)
        document1 == [document EXCEPT !.content_size = getsizeof(content)]
        metadataq == generate_metadata(handler, document1)
        parts == split_content(handler, content)
        docs == [i \in 1..Len(parts) |-> [page_content |-> parts[i], metadata |-> 1]]
        heap == [r \in {1} |-> metadataq]
        document2 == [document1 EXCEPT !.page_size = Len(docs)]
    IN  [raised |-> FALSE, fetched |-> <<fetch_locator(handler, document)>>,
         docs |-> deref(docs, enumerate_docs(docs, heap, dataset_id, document2, 1)),
         document |-> document2]

\* DocumentHandler.process of "document_processor copy.py".  Every Document is built
\* with the one dict metadataq: reference 1 for all of them.
process_copy(handler, document, dataset_id) ==
    LET content == fetch_content(handler, document)
        document1 == [document EXCEPT !.content_size = getsizeof(content)]
        metadataq == generate_metadata(handler, document1)
        parts == split_content(handler, content)
        docs == [i \in 1..Len(parts) |-> [page_content |-> parts[i], metadata |-> 1]]
        heap == [r \in {1} |-> metadataq]
        document2 == [document1 EXCEPT !.page_size = Len(docs)]
    IN  [raised |-> FALSE, fetched |-> <<fetch_locator(handler, document)>>,
         docs |-> deref(docs, enumerate_docs(docs, heap, dataset_id, document2, 1)),
         document |-> document2]

\* handler.process(document, dataset) in the imported module
handler_process(handler, document, dataset_id) ==
    IF processor = "document_processor" THEN process(handler, document, dataset_id)
    ELSE process_copy(handler, document, dataset_id)

\* load_and_split_documents: the handlers loop over every document of every
\* dataset, in order.  acc carries the docs gathered, the Document objects
\* as process left them and the locators fetched; a document without a
\* handler raises and ends the loop.
RECURSIVE load_documents(_, _, _)
load_documents(dataset_id, documents, acc) ==
    IF acc.raised \/ documents = <<>> THEN acc
    ELSE LET document == Head(documents)
         IN  IF document.type \in DOMAIN handlers
             THEN LET r == handler_process(handlers[document.type], document, dataset_id)
                  IN  load_documents(dataset_id, Tail(documents),
                          [raised |-> r.raised,
                           docs |-> acc.docs \o r.docs,
                           documents |-> Append(acc.documents, r.document),
                           fetched |-> acc.fetched \o r.fetched])
             ELSE [acc EXCEPT !.raised = TRUE]

RECURSIVE load_datasets(_, _)
load_datasets(dsets, acc) ==
    IF acc.raised \/ dsets = <<>> THEN acc
    ELSE load_datasets(Tail(dsets),
                       load_documents(Head(dsets).id, Head(dsets).documents, acc))

load_and_split_documents(dsets) ==
    load_datasets(dsets, [raised |-> FALSE, docs |-> <<>>, documents |-> <<>>,
                          fetched |-> <<>>])


(***************************************************************************)
(* The dataset manager (models.controller.dataset_manager): the store of    *)
(* datasets and segments the router calls.  Every operator works on the    *)
(* current store and yields the store it leaves, with error naming the     *)
(* ValueError it raises ("" when it returns).                              *)
(***************************************************************************)
Store == [datasets |-> datasets, segments |-> segments, next_ordinal |-> next_ordinal,
          assigned |-> assigned]

uids_of(documents) == {documents[i].uid : i \in DOMAIN documents}

find_document(documents, uid) ==
    documents[CHOOSE i \in DOMAIN documents : documents[i].uid = uid]

\* same uid, url, type and split_option: the derived fields do not count
same_document(a, b) ==
    /\ a.uid = b.uid
    /\ a.url = b.url
    /\ a.type = b.type
    /\ a.split_option = b.split_option

\* f restricted to the keys outside gone
without(f, gone) == [k \in DOMAIN f \ gone |-> f[k]]

\* ids of the stored segments of one document
document_segments(st, dataset_id, uid) ==
    {sid \in DOMAIN st.segments :
        st.segments[sid].dataset_id = dataset_id /\ st.segments[sid].uid = uid}

\* ids of the stored segments of one dataset
dataset_segments(st, dataset_id) ==
    {sid \in DOMAIN st.segments : st.segments[sid].dataset_id = dataset_id}

\* the backing store is keyed by segment id: the urn process gave the segment
RECURSIVE persist(_, _, _, _)
persist(stored, dataset_id, uid, docs) ==
    IF docs = <<>> THEN stored
    ELSE LET doc == Head(docs)
             segment == [dataset_id |-> dataset_id, uid |-> uid,
                         content |-> doc.page_content,
                         page_number |-> doc.metadata["page_number"]]
         IN  persist(setitem(stored, doc.metadata["urn"], segment),
                     dataset_id, uid, Tail(docs))

\* what the manager keeps of a run r of the pipeline on one document: the
\* segments and the document with its derived fields
ingested_document(document, r) ==
    IF r.raised
    THEN [raised |-> TRUE, ingested |-> TRUE, docs |-> <<>>, document |-> document,
          fetched |-> r.fetched]
    ELSE [raised |-> FALSE, ingested |-> TRUE, docs |-> r.docs,
          document |-> [r.documents[1] EXCEPT !.page_size = Len(r.docs)],
          fetched |-> r.fetched]

\* Document Pipeline for one document of a dataset
ingest(dataset_id, document) ==
    ingested_document(document,
        load_and_split_documents(<<[id |-> dataset_id, documents |-> <<document>>]>>))

\* the reconciliation plan of a desired document list against the stored one:
\* an unchanged document keeps its stored record, any other is ingested
reconcile(dataset_id, previous, desired) ==
    [i \in 1..Len(desired) |->
        IF \E j \in DOMAIN previous : same_document(previous[j], desired[i])
        THEN [raised |-> FALSE, ingested |-> FALSE, docs |-> <<>>,
              document |-> find_document(previous, desired[i].uid), fetched |-> <<>>]
        ELSE ingest(dataset_id, desired[i])]

RECURSIVE persist_plan(_, _, _)
persist_plan(stored, dataset_id, plan) ==
    IF plan = <<>> THEN stored
    ELSE persist_plan(persist(stored, dataset_id, Head(plan).document.uid, Head(plan).docs),
                      dataset_id, Tail(plan))

\* the documents whose stored segments an update discards: the ones no longer
\* asked for and the ones ingested again; the second definition discards the
\* latter only
stale_uids_ingested_only(previous, desired, ingested) == ingested

stale_uids(previous, desired, ingested) ==
    (uids_of(previous) \ uids_of(desired)) \cup ingested

\* the store after a reconciliation plan is carried out, or the store as it
\* was when a document of the plan could not be ingested; ingested names the
\* documents the pipeline was run on
apply_plan(st, id, previous, desired, plan) ==
    LET ingested == {plan[i].document.uid : i \in {j \in DOMAIN plan : plan[j].ingested}}
        dropped == stale_uids(previous, desired, ingested)
        stale == UNION {document_segments(st, id, u) : u \in dropped}
        kept == without(st.segments, stale)
        ordinals == without(st.next_ordinal, {<<id, u>> : u \in dropped})
        retained == {a \in st.assigned : ~(a[1] = id /\ a[2] \in dropped)}
    IN  IF \E i \in DOMAIN plan : plan[i].raised
        THEN [error |-> "ingestion failed", ingested |-> ingested, store |-> st]
        ELSE [error |-> "", ingested |-> ingested,
              store |->
                [datasets |-> setitem(st.datasets, id,
                                      [i \in DOMAIN plan |-> plan[i].document]),
                 segments |-> persist_plan(kept, id, plan),
                 next_ordinal |->
                    [k \in DOMAIN ordinals \cup {<<id, u>> : u \in ingested} |->
                        IF k[2] \in ingested /\ k[1] = id
                        THEN Len(plan[CHOOSE i \in DOMAIN plan :
                                          plan[i].document.uid = k[2]].docs)
                        ELSE ordinals[k]],
                 assigned |->
                    retained \cup
                    UNION {{<<id, plan[i].document.uid, plan[i].docs[j].metadata["urn"]>> :
                               j \in DOMAIN plan[i].docs} : i \in DOMAIN plan}]]

\* the documents stored for a dataset id, none when it is not stored
stored_documents(st, id) ==
    IF id \in DOMAIN st.datasets THEN st.datasets[id] ELSE <<>>

\* dataset_manager.upsert_dataset(id, dataset_info)
dataset_manager_upsert_dataset(st, id, dataset_info) ==
    apply_plan(st, id, stored_documents(st, id), dataset_info.documents,
               reconcile(id, stored_documents(st, id), dataset_info.documents))

\* the result r of an operation, with the store st when it failed
unchanged_on_error(r, st) ==
    IF r.error = "" THEN r
    ELSE [error |-> r.error, ingested |-> r.ingested, store |-> st]

\* dataset_manager.save_dataset(dataset): every document is ingested
dataset_manager_save_dataset(st, dataset) ==
    LET cleared == [datasets |-> without(st.datasets, {dataset.id}),
                    segments |-> without(st.segments, dataset_segments(st, dataset.id)),
                    next_ordinal |->
                        without(st.next_ordinal, {<<dataset.id, u>> : u \in Uids}),
                    assigned |-> {a \in st.assigned : a[1] # dataset.id}]
    IN  unchanged_on_error(dataset_manager_upsert_dataset(cleared, dataset.id, dataset), st)

\* delete_dataset that removes the dataset record and nothing else
dataset_manager_delete_dataset_record_only(st, id) ==
    [error |-> "", store |-> [st EXCEPT !.datasets = without(@, {id})]]

\* dataset_manager.delete_dataset(id): cascades to the segments; a missing id
\* is no error
dataset_manager_delete_dataset(st, id) ==
    [error |-> "",
     store |-> [datasets |-> without(st.datasets, {id}),
                segments |-> without(st.segments, dataset_segments(st, id)),
                next_ordinal |-> without(st.next_ordinal, {<<id, u>> : u \in Uids}),
                assigned |-> {a \in st.assigned : a[1] # id}]]

\* dataset_manager.get_datasets(id): the dataset in a list, or None (here <<>>)
dataset_manager_get_datasets(st, id) ==
    IF id \in DOMAIN st.datasets
    THEN <<[id |-> id, documents |-> st.datasets[id]]>>
    ELSE <<>>


\* "q in content" on strings
contains(content, q) ==
    \E i \in 0..(Len(content) - Len(q)) : SubSeq(content, i + 1, i + Len(q)) = q

\* segment ids ordered by ascending page_number
RECURSIVE by_page_number(_, _)
by_page_number(st, sids) ==
    IF sids = {} THEN <<>>
    ELSE LET first == CHOOSE s \in sids :
                        \A t \in sids :
                            st.segments[s].page_number <= st.segments[t].page_number
         IN  <<first>> \o by_page_number(st, sids \ {first})

\* lst[offset : offset + limit]
slice(lst, offset, limit) ==
    LET lo == IF offset < Len(lst) THEN offset ELSE Len(lst)
        hi == IF offset + limit < Len(lst) THEN offset + limit ELSE Len(lst)
    IN  SubSeq(lst, lo + 1, hi)

\* dataset_manager.get_document_segments(dataset_id, uid, offset, limit, query);
\* query is <<>> when the caller passes none, <<q>> otherwise
dataset_manager_get_document_segments(st, dataset_id, uid, offset, limit, query) ==
    IF dataset_id \notin DOMAIN st.datasets
    THEN [error |-> "Dataset not found"]
    ELSE IF uid \notin uids_of(st.datasets[dataset_id])
    THEN [error |-> "UID not found in dataset documents"]
    ELSE LET all == document_segments(st, dataset_id, uid)
             hits == IF query = <<>> THEN all
                     ELSE {sid \in all : contains(st.segments[sid].content, query[1])}
             ordered == by_page_number(st, hits)
             page == slice(ordered, offset, limit)
         IN  [error |-> "",
              data |-> [totalItems |-> Len(ordered),
                        segments |->
                            [i \in 1..Len(page) |->
                                [segment_id |-> page[i],
                                 content |-> st.segments[page[i]].content,
                                 page_number |-> st.segments[page[i]].page_number]]]]

\* the stored document list with one document's page_size changed by delta
resize(documents, uid, delta) ==
    [i \in DOMAIN documents |->
        IF documents[i].uid = uid
        THEN [documents[i] EXCEPT !.page_size = @ + delta]
        ELSE documents[i]]

\* update_segment closing the gap a deleted segment leaves in the numbering
dataset_manager_update_segment_renumbering(st, dataset_id, uid, segment_id, content) ==
    IF dataset_id \notin DOMAIN st.datasets
    THEN [error |-> "Dataset not found", store |-> st]
    ELSE IF uid \notin uids_of(st.datasets[dataset_id])
    THEN [error |-> "UID not found in dataset documents", store |-> st]
    ELSE IF segment_id \notin document_segments(st, dataset_id, uid)
    THEN [error |-> "Segment not found", store |-> st]
    ELSE IF content = <<>>
    THEN LET gap == st.segments[segment_id].page_number
             rest == without(st.segments, {segment_id})
         IN  [error |-> "",
              store |-> [st EXCEPT
                            !.segments =
                               [sid \in DOMAIN rest |->
                                   IF /\ sid \in document_segments(st, dataset_id, uid)
                                      /\ rest[sid].page_number > gap
                                   THEN [rest[sid] EXCEPT !.page_number = @ - 1]
                                   ELSE rest[sid]],
                            !.datasets[dataset_id] = resize(@, uid, -1)]]
    ELSE [error |-> "",
          store |-> [st EXCEPT !.segments[segment_id].content = content]]

\* update_segment writing the new content to every segment of the document
dataset_manager_update_segment_every(st, dataset_id, uid, segment_id, content) ==
    IF dataset_id \notin DOMAIN st.datasets
    THEN [error |-> "Dataset not found", store |-> st]
    ELSE IF uid \notin uids_of(st.datasets[dataset_id])
    THEN [error |-> "UID not found in dataset documents", store |-> st]
    ELSE IF segment_id \notin document_segments(st, dataset_id, uid)
    THEN [error |-> "Segment not found", store |-> st]
    ELSE IF content = <<>>
    THEN [error |-> "",
          store |-> [st EXCEPT
                        !.segments = without(@, {segment_id}),
                        !.datasets[dataset_id] = resize(@, uid, -1)]]
    ELSE [error |-> "",
          store |-> [st EXCEPT
                        !.segments =
                           [sid \in DOMAIN @ |->
                               IF sid \in document_segments(st, dataset_id, uid)
                               THEN [@[sid] EXCEPT !.content = content]
                               ELSE @[sid]]]]

\* dataset_manager.update_segment(dataset_id, uid, segment_id, content):
\* the empty content deletes the segment, any other replaces its content
dataset_manager_update_segment(st, dataset_id, uid, segment_id, content) ==
    IF dataset_id \notin DOMAIN st.datasets
    THEN [error |-> "Dataset not found", store |-> st]
    ELSE IF uid \notin uids_of(st.datasets[dataset_id])
    THEN [error |-> "UID not found in dataset documents", store |-> st]
    ELSE IF segment_id \notin document_segments(st, dataset_id, uid)
    THEN [error |-> "Segment not found", store |-> st]
    ELSE IF content = <<>>
    THEN [error |-> "",
          store |-> [st EXCEPT
                        !.segments = without(@, {segment_id}),
                        !.datasets[dataset_id] = resize(@, uid, -1)]]
    ELSE [error |-> "",
          store |-> [st EXCEPT !.segments[segment_id].content = content]]

\* the document locator of a segment id: the uid for annotated data, the url
\* for every other type
document_locator(document) ==
    IF document.type = "annotated_data" THEN document.uid ELSE document.url

\* add_segment with the ordinal given; the two definitions after it take the
\* number of live segments of the document and put the segment on page 0
add_segment_at(st, dataset_id, uid, content, ordinal, page_number) ==
    LET document == find_document(st.datasets[dataset_id], uid)
        segment_id == urn(dataset_id, document_locator(document), ordinal)
    IN  [error |-> "",
         segment_id |-> segment_id,
         store |->
           [datasets |-> [st.datasets EXCEPT ![dataset_id] = resize(@, uid, 1)],
            segments |-> setitem(st.segments, segment_id,
                                 [dataset_id |-> dataset_id, uid |-> uid,
                                  content |-> content, page_number |-> page_number]),
            next_ordinal |-> [st.next_ordinal EXCEPT ![<<dataset_id, uid>>] = @ + 1],
            assigned |-> st.assigned \cup {<<dataset_id, uid, segment_id>>}]]

dataset_manager_add_segment_counting(st, dataset_id, uid, content) ==
    IF dataset_id \notin DOMAIN st.datasets
    THEN [error |-> "Dataset not found", store |-> st, segment_id |-> ""]
    ELSE IF uid \notin uids_of(st.datasets[dataset_id])
    THEN [error |-> "UID not found in dataset documents", store |-> st, segment_id |-> ""]
    ELSE LET live == Cardinality(document_segments(st, dataset_id, uid))
         IN  add_segment_at(st, dataset_id, uid, content, live, live)

dataset_manager_add_segment_first(st, dataset_id, uid, content) ==
    IF dataset_id \notin DOMAIN st.datasets
    THEN [error |-> "Dataset not found", store |-> st, segment_id |-> ""]
    ELSE IF uid \notin uids_of(st.datasets[dataset_id])
    THEN [error |-> "UID not found in dataset documents", store |-> st, segment_id |-> ""]
    ELSE add_segment_at(st, dataset_id, uid, content,
                        st.next_ordinal[<<dataset_id, uid>>], 0)

\* dataset_manager.add_segment(dataset_id, uid, content): the next ordinal of
\* the document, never one handed out before
dataset_manager_add_segment(st, dataset_id, uid, content) ==
    IF dataset_id \notin DOMAIN st.datasets
    THEN [error |-> "Dataset not found", store |-> st, segment_id |-> ""]
    ELSE IF uid \notin uids_of(st.datasets[dataset_id])
    THEN [error |-> "UID not found in dataset documents", store |-> st, segment_id |-> ""]
    ELSE LET ordinal == st.next_ordinal[<<dataset_id, uid>>]
         IN  add_segment_at(st, dataset_id, uid, content, ordinal, ordinal)


(***************************************************************************)
(* SpecProcess: the document pipeline on its own.  One dataset id, one     *)
(* document and the stored texts are drawn at the start; process is then   *)
(* run on the same Document object up to MaxRuns times.                    *)
(***************************************************************************)
InitProcess ==
    /\ processor \in Processors
    /\ \E t \in Texts :
          /\ gcs = [l \in Urls \cup Uids |-> t]
          /\ annotated = [u \in Uids |-> t]
    /\ p_dataset \in DatasetIds
    /\ p_document \in Documents
    /\ p_docs = <<>>
    /\ p_stored = NoKeys
    /\ p_prev = [docs |-> <<>>, stored |-> NoKeys]
    /\ p_raised = FALSE
    /\ p_runs = 0
    /\ celery = [state |-> "NONE"]
    /\ webhook = [state |-> "idle"]
    /\ redis = NoKeys
    /\ utils = [to_string |-> "return None"]
    /\ prompt = [op |-> "none"]
    /\ p_fetched = <<>>
    /\ l_documents = <<>>
    /\ datasets = NoKeys
    /\ segments = NoKeys
    /\ next_ordinal = NoKeys
    /\ assigned = {}
    /\ tasks = {}
    /\ issued = {}
    /\ response = [op |-> "none"]
    /\ completed = [kind |-> "none"]

\* load_and_split_documents on the one document, and its segments persisted
\* under their ids
LoadAndSplit ==
    /\ p_runs < MaxRuns
    /\ LET r == load_and_split_documents(<<[id |-> p_dataset,
                                            documents |-> <<p_document>>]>>)
       IN  /\ p_raised' = r.raised
           /\ p_fetched' = r.fetched
           /\ p_docs' = IF r.raised THEN <<>> ELSE r.docs
           /\ p_document' = IF r.documents = <<>> THEN p_document ELSE r.documents[1]
           /\ p_stored' = IF r.raised THEN p_stored
                          ELSE persist(p_stored, p_dataset, p_document.uid, r.docs)
    /\ p_prev' = [docs |-> p_docs, stored |-> p_stored]
    /\ p_runs' = p_runs + 1
    /\ UNCHANGED <<p_dataset, l_documents>>
    /\ UNCHANGED <<envvars, storevars, apivars>>

NextProcess == LoadAndSplit

vars == <<envvars, pvars, storevars, apivars>>

SpecProcess == InitProcess /\ [][NextProcess]_vars

(***************************************************************************)
(* Properties of the document pipeline (SpecProcess).                      *)
(***************************************************************************)
Ingested == p_runs > 0 /\ ~p_raised

page_contents(docs) == [i \in DOMAIN docs |-> docs[i].page_content]

\* C1 (as claimed): segment i of an ingested document has page_number i and the
\* urn "<dataset id>-<locator>-<i>", the locator being document.uid for
\* annotated data and document.url for every other type.
C1_PositionalIds ==
    Ingested =>
        \A i \in DOMAIN p_docs :
            /\ p_docs[i].metadata["page_number"] = i - 1
            /\ p_docs[i].metadata["urn"] =
                 urn(p_dataset,
                     IF p_document.type = "annotated_data" THEN p_document.uid
                     ELSE p_document.url,
                     i - 1)

Handled == p_runs > 0 /\ p_document.type \in DOMAIN handlers

\* the text the handler of the pipeline's document extracts
extracted_text == fetch_content(handlers[p_document.type], p_document)

\* C14 (as claimed): a document whose split_option has chunk_overlap >=
\* chunk_size is rejected before any fetch: the run raises, nothing is loaded
\* from the object store or the annotation store, and no segment is produced.
C14_RejectedBeforeFetch ==
    (/\ Handled
     /\ get(p_document.split_option, "chunk_overlap", DefaultChunkOverlap)
           >= get(p_document.split_option, "chunk_size", DefaultChunkSize)) =>
        /\ p_raised
        /\ p_fetched = <<>>
        /\ p_docs = <<>>

\* C29 (as claimed): each of the n segments process returns has metadata of
\* its own: page_number i, an urn ending in "-i" and the source (the url, the
\* uid for annotated data), so that no two segments share a page_number or urn.
C29_OwnMetadata ==
    (Ingested /\ Handled) =>
        /\ \A i \in DOMAIN p_docs :
              /\ p_docs[i].metadata["page_number"] = i - 1
              /\ \E locator \in Urls \cup Uids :
                    p_docs[i].metadata["urn"] = urn(p_dataset, locator, i - 1)
              /\ "source" \in DOMAIN p_docs[i].metadata
              /\ p_docs[i].metadata["source"] =
                    IF p_document.type = "annotated_data" THEN p_document.uid
                    ELSE p_document.url
        /\ \A i \in DOMAIN p_docs : \A j \in DOMAIN p_docs :
              i # j => /\ p_docs[i].metadata["page_number"] # p_docs[j].metadata["page_number"]
                       /\ p_docs[i].metadata["urn"] # p_docs[j].metadata["urn"]

\* C15 (as claimed): a document whose extracted text is empty yields zero
\* segments and its page_size is set to 0.
C15_EmptyTextNoSegments ==
    (Ingested /\ Handled /\ extracted_text = <<>>) =>
        /\ p_docs = <<>>
        /\ p_document.page_size = 0


(***************************************************************************)
(* Spec: the API of routers/dataset.py over the dataset manager.           *)
(***************************************************************************)
SplitSmall == [chunk_size |-> 1, chunk_overlap |-> 0]

\* documents the clients of the store checks submit: u1 is a pdf at x under two
\* split options; u2 is a transcript whose url is x too, a word file or a
\* file of an unsupported type at y
StoreDocuments ==
    {d \in Documents :
        \/ d.uid = "u1" /\ d.type = "pdf" /\ d.url = "x"
               /\ d.split_option \in {NoKeys, SplitSmall}
        \/ d.uid = "u2" /\ d.type = "annotated_data" /\ d.url = "x"
               /\ d.split_option = SplitSmall
        \/ d.uid = "u2" /\ d.type \in {"word", "txt"} /\ d.url = "y"
               /\ d.split_option = SplitSmall}

\* document lists with pairwise distinct uids and one split option
DocumentLists ==
    {<<>>} \cup {<<d>> : d \in StoreDocuments}
           \cup {l \in StoreDocuments \X StoreDocuments :
                    /\ l[1].uid # l[2].uid
                    /\ l[1].split_option = l[2].split_option}

\* lists of the documents both modules have a handler for
SupportedLists ==
    {l \in DocumentLists : \A i \in DOMAIN l : l[i].type \in {"pdf", "annotated_data"}}

\* the supported lists in which every document has the small split option
SegmentLists ==
    {l \in SupportedLists : \A i \in DOMAIN l : l[i].split_option = SplitSmall}

\* lists of at most one document
ShortLists == {l \in DocumentLists : Len(l) <= 1}

\* contents a client sends when it adds or edits a segment, and queries
EditContents == {<<"b">>}
AddContents == {<<"a", "b">>}
Queries == {<<<<"b">>>>, <<<<"a", SP>>>>}

\* segment ids a client names for a document: the stored ones and one that is
\* never stored
SegmentIds(dataset_id, uid) == document_segments(Store, dataset_id, uid) \cup {"d1-x-9"}

KnownIds == ClientIds \cup issued

\* what the two storage clients hold in the store checks
StoredObjects ==
    [l \in Urls \cup Uids |->
        IF l = "x" THEN <<"a", SP, "b", FF, "a">>
        ELSE IF l = "y" THEN <<"b">> ELSE <<>>]
StoredTranscripts == [u \in Uids |-> <<"b", SP, "a">>]

\* the parts of the state the store checks leave alone
InitIdle ==
    /\ processor \in Processors
    /\ gcs = StoredObjects
    /\ annotated = StoredTranscripts
    /\ p_dataset = "d1"
    /\ p_document = CHOOSE d \in StoreDocuments : d.uid = "u1" /\ d.split_option = NoKeys
    /\ p_docs = <<>>
    /\ p_stored = NoKeys
    /\ p_prev = [docs |-> <<>>, stored |-> NoKeys]
    /\ p_raised = FALSE
    /\ p_runs = 0
    /\ celery = [state |-> "NONE"]
    /\ webhook = [state |-> "idle"]
    /\ redis = NoKeys
    /\ utils = [to_string |-> "return None"]
    /\ prompt = [op |-> "none"]
    /\ p_fetched = <<>>
    /\ l_documents = <<>>
    /\ tasks = {}
    /\ issued = {}
    /\ response = [op |-> "none"]
    /\ completed = [kind |-> "none"]

Init ==
    /\ InitIdle
    /\ datasets = NoKeys
    /\ segments = NoKeys
    /\ next_ordinal = NoKeys
    /\ assigned = {}

\* executor = ThreadPoolExecutor(max_workers=1000): a submitted task gets a
\* worker thread of its own while no more than max_workers tasks are held, and
\* runs from then on
max_workers == 1000
running == {task \in tasks : Cardinality(tasks) <= max_workers}

install(st) ==
    /\ datasets' = st.datasets
    /\ segments' = st.segments
    /\ next_ordinal' = st.next_ordinal
    /\ assigned' = st.assigned

\* a background task ends with the result r of the manager: the store is r's,
\* an exception is logged and nothing else
task_done(task, r) ==
    /\ install(r.store)
    /\ completed' = [kind |-> task.kind, id |-> task.id,
                     documents |-> task.documents, error |-> r.error,
                     ingested |-> r.ingested,
                     previous |-> dataset_manager_get_datasets(Store, task.id)]
    /\ tasks' = tasks \ {task}
    /\ response' = [op |-> "none"]

\* GET /{id}; a response with the field exception stands for the HTTPException
\* the handler raises, which FastAPI answers with the status and the detail
get_dataset(id) ==
    /\ LET dataset == dataset_manager_get_datasets(Store, id)
       IN  response' =
             IF dataset = <<>>
             THEN [op |-> "get_dataset", id |-> id, status |-> 404,
                   message |-> "Dataset not found", exception |-> "HTTPException"]
             ELSE [op |-> "get_dataset", id |-> id, status |-> 200,
                   message |-> "success", data |-> dataset]
    /\ completed' = [kind |-> "none"]
    /\ UNCHANGED <<envvars, pvars, storevars, tasks, issued>>

\* POST /: the id is replaced by a fresh uuid and the save is handed to the
\* executor
create_dataset(dataset) ==
    /\ Cardinality(tasks) < MaxTasks
    /\ \E id \in Uuids \ issued :
          /\ issued' = issued \cup {id}
          /\ tasks' = tasks \cup {[kind |-> "create", id |-> id,
                                   documents |-> dataset.documents]}
          /\ response' = [op |-> "create_dataset", submitted |-> dataset.id,
                          status |-> 200, message |-> "success", data |-> [id |-> id]]
    /\ completed' = [kind |-> "none"]
    /\ UNCHANGED <<envvars, pvars, storevars>>

\* background_create_dataset in a worker thread: an exception is logged
background_create_dataset(task) ==
    /\ task.kind = "create"
    /\ task_done(task, dataset_manager_save_dataset(Store, task))
    /\ UNCHANGED <<envvars, pvars, issued>>

\* update_dataset storing the document list itself before it hands the upsert
\* to the executor
update_dataset_eager(id, dataset) ==
    /\ Cardinality(tasks) < MaxTasks
    /\ tasks' = tasks \cup {[kind |-> "upsert", id |-> id,
                             documents |-> dataset.documents]}
    /\ response' = [op |-> "update_dataset", id |-> id, status |-> 200,
                    message |-> "success"]
    /\ completed' = [kind |-> "none"]
    /\ datasets' = setitem(datasets, id, dataset.documents)
    /\ UNCHANGED <<envvars, pvars, segments, next_ordinal, assigned, issued>>

\* PATCH /{id}: the upsert is handed to the executor
update_dataset(id, dataset) ==
    /\ Cardinality(tasks) < MaxTasks
    /\ tasks' = tasks \cup {[kind |-> "upsert", id |-> id,
                             documents |-> dataset.documents]}
    /\ response' = [op |-> "update_dataset", id |-> id, status |-> 200,
                    message |-> "success"]
    /\ completed' = [kind |-> "none"]
    /\ UNCHANGED <<envvars, pvars, storevars, issued>>

\* background_upsert_dataset in a worker thread: an exception is logged
background_upsert_dataset(task) ==
    /\ task.kind = "upsert"
    /\ task_done(task, dataset_manager_upsert_dataset(Store, task.id, task))
    /\ UNCHANGED <<envvars, pvars, issued>>

\* DELETE /{id} with the check get_dataset makes: 404 for an id not stored
delete_dataset_checked(id) ==
    /\ LET r == dataset_manager_delete_dataset(Store, id)
       IN  /\ install(r.store)
           /\ response' =
                IF dataset_manager_get_datasets(Store, id) = <<>>
                THEN [op |-> "delete_dataset", id |-> id, status |-> 404,
                      message |-> "Dataset not found"]
                ELSE [op |-> "delete_dataset", id |-> id, status |-> 200,
                      message |-> "success"]
    /\ completed' = [kind |-> "none"]
    /\ UNCHANGED <<envvars, pvars, tasks, issued>>

\* DELETE /{id}: an exception of the manager becomes the HTTPException 400
delete_dataset(id) ==
    /\ LET r == dataset_manager_delete_dataset(Store, id)
       IN  /\ install(r.store)
           /\ response' =
                IF r.error = ""
                THEN [op |-> "delete_dataset", id |-> id, status |-> 200,
                      message |-> "success"]
                ELSE [op |-> "delete_dataset", id |-> id, status |-> 400,
                      message |-> "Dataset not deleted with error", detail |-> r.error,
                      exception |-> "HTTPException"]
    /\ completed' = [kind |-> "none"]
    /\ UNCHANGED <<envvars, pvars, tasks, issued>>

\* an error mapping that knows no message of the manager
error_mapping_generic(error) ==
    [message |-> "Internal Server Error", status |-> "500", data |-> <<>>]

\* GET /{dataset_id}/document/{uid}: the handler declares offset and limit only,
\* so a query parameter of the request is dropped and the manager gets none.
\* error_mapping.get(str(e), ...); the data None of every entry is <<>> here
error_mapping(error) ==
    IF error \in {"Dataset not found", "UID not found in dataset documents"}
    THEN [message |-> error, status |-> "404", data |-> <<>>]
    ELSE IF error = "Unexpected data format from Pinecone"
    THEN [message |-> error, status |-> "500", data |-> <<>>]
    ELSE [message |-> "Internal Server Error", status |-> "500", data |-> <<>>]

\* the handler passing limit where the manager takes the offset, and the offset
\* where it takes the limit
retrieve_document_segments_swapped(dataset_id, uid, offset, limit, query) ==
    /\ LET r == dataset_manager_get_document_segments(Store, dataset_id, uid,
                                                      limit, offset, <<>>)
           request == [op |-> "retrieve_document_segments", dataset_id |-> dataset_id,
                       uid |-> uid, offset |-> offset, limit |-> limit,
                       query |-> query]
       IN  response' =
             IF r.error = ""
             THEN request @@ [message |-> "success", status |-> "200", data |-> r.data]
             ELSE request @@ error_mapping(r.error)
    /\ completed' = [kind |-> "none"]
    /\ UNCHANGED <<envvars, pvars, storevars, tasks, issued>>

retrieve_document_segments(dataset_id, uid, offset, limit, query) ==
    /\ LET r == dataset_manager_get_document_segments(Store, dataset_id, uid,
                                                      offset, limit, <<>>)
           request == [op |-> "retrieve_document_segments", dataset_id |-> dataset_id,
                       uid |-> uid, offset |-> offset, limit |-> limit,
                       query |-> query]
       IN  response' =
             IF r.error = ""
             THEN request @@ [message |-> "success", status |-> "200", data |-> r.data]
             ELSE request @@ error_mapping(r.error)
    /\ completed' = [kind |-> "none"]
    /\ UNCHANGED <<envvars, pvars, storevars, tasks, issued>>

\* update_segment without the test of line 134: a body without the key content
\* is passed on as the empty content
update_segment_defaulting(dataset_id, uid, segment_id, segment) ==
    LET request == [op |-> "update_segment", dataset_id |-> dataset_id, uid |-> uid,
                    segment_id |-> segment_id, segment |-> segment]
        content == IF "content" \in DOMAIN segment THEN segment["content"] ELSE <<>>
        r == dataset_manager_update_segment(Store, dataset_id, uid, segment_id, content)
    IN  /\ install(r.store)
        /\ response' =
             IF r.error = ""
             THEN request @@ [message |-> "success", status |-> 200]
             ELSE request @@ [message |-> "Segment not updated with error",
                              detail |-> r.error, status |-> 400,
                              exception |-> "HTTPException"]
        /\ completed' = [kind |-> "none"]
        /\ UNCHANGED <<envvars, pvars, tasks, issued>>

\* PATCH /{dataset_id}/document/{uid}/segment/{segment_id}; segment is the body,
\* a dict with or without the key content
update_segment(dataset_id, uid, segment_id, segment) ==
    LET request == [op |-> "update_segment", dataset_id |-> dataset_id, uid |-> uid,
                    segment_id |-> segment_id, segment |-> segment]
    IN  IF "content" \notin DOMAIN segment
        THEN /\ response' = request @@ [message |-> "content is required", status |-> 400]
             /\ completed' = [kind |-> "none"]
             /\ UNCHANGED <<envvars, pvars, storevars, tasks, issued>>
        ELSE LET r == dataset_manager_update_segment(Store, dataset_id, uid, segment_id,
                                                     segment["content"])
             IN  /\ install(r.store)
                 /\ response' =
                      IF r.error = ""
                      THEN request @@ [message |-> "success", status |-> 200]
                      ELSE request @@ [message |-> "Segment not updated with error",
                                       detail |-> r.error, status |-> 400,
                                       exception |-> "HTTPException"]
                 /\ completed' = [kind |-> "none"]
                 /\ UNCHANGED <<envvars, pvars, tasks, issued>>

\* POST /{dataset_id}/document/{uid}/segment/
add_segment(dataset_id, uid, content) ==
    /\ <<dataset_id, uid>> \in DOMAIN next_ordinal => next_ordinal[<<dataset_id, uid>>] < MaxOrdinal
    /\ LET r == dataset_manager_add_segment(Store, dataset_id, uid, content)
           request == [op |-> "add_segment", dataset_id |-> dataset_id, uid |-> uid,
                       content |-> content]
       IN  /\ install(r.store)
           /\ response' =
                IF r.error = ""
                THEN request @@ [message |-> "success", status |-> 200,
                                 segment_id |-> r.segment_id]
                ELSE request @@ [message |-> "Segment not added with error",
                                 detail |-> r.error, status |-> 400]
    /\ completed' = [kind |-> "none"]
    /\ UNCHANGED <<envvars, pvars, tasks, issued>>

Next ==
    \/ \E id \in KnownIds : get_dataset(id)
    \/ \E documents \in ShortLists, id \in ClientIds \cup {""} :
            create_dataset([id |-> id, documents |-> documents])
    \/ \E task \in tasks : background_create_dataset(task)
    \/ \E id \in ClientIds, documents \in DocumentLists :
            update_dataset(id, [documents |-> documents])
    \/ \E task \in tasks : background_upsert_dataset(task)
    \/ \E id \in KnownIds : delete_dataset(id)
    \/ \E id \in KnownIds, uid \in Uids :
            retrieve_document_segments(id, uid, 0, MaxPage, <<>>)

Spec == Init /\ [][Next]_vars

(***************************************************************************)
(* SpecSegments: the segment edits on one dataset, d1, which is first      *)
(* stored by a direct call of dataset_manager.save_dataset with a document *)
(* list (the way the tests set a dataset up).                              *)
(***************************************************************************)
\* dataset_manager.save_dataset(dataset), called before any request
save_dataset(dataset) ==
    /\ datasets = NoKeys
    /\ response.op = "none"
    /\ install(dataset_manager_save_dataset(Store, dataset).store)
    /\ UNCHANGED <<envvars, pvars, apivars>>

NextSegments ==
    \/ \E documents \in SegmentLists :
            save_dataset([id |-> "d1", documents |-> documents])
    \/ \E id \in KnownIds, uid \in Uids :
            retrieve_document_segments(id, uid, 0, MaxPage, <<>>)
    \/ \E id \in KnownIds, uid \in Uids,
          segment \in {NoKeys} \cup {[content |-> c] : c \in EditContents \cup {<<>>}} :
            \E segment_id \in SegmentIds(id, uid) :
                update_segment(id, uid, segment_id, segment)
    \/ \E id \in KnownIds, uid \in Uids, content \in AddContents :
            add_segment(id, uid, content)

SpecSegments == Init /\ [][NextSegments]_vars

(***************************************************************************)
(* SpecListing: list_segments with paging and with a query, on the dataset *)
(* d1 stored as above and grown by add_segment.                            *)
(***************************************************************************)
NextListing ==
    \/ \E documents \in SupportedLists :
            save_dataset([id |-> "d1", documents |-> documents])
    \/ \E id \in KnownIds, uid \in Uids, offset \in 0..MaxPage, limit \in 0..MaxPage :
            retrieve_document_segments(id, uid, offset, limit, <<>>)
    \/ \E id \in KnownIds, uid \in Uids, query \in Queries :
            retrieve_document_segments(id, uid, 0, MaxPage, query)
    \/ \E id \in KnownIds, uid \in Uids, content \in AddContents :
            add_segment(id, uid, content)

SpecListing == Init /\ [][NextListing]_vars

(***************************************************************************)
(* Properties of the segment endpoints (SpecSegments).                     *)
(***************************************************************************)
\* every segment of a document as list_segments returns them
listing(st, dataset_id, uid) ==
    dataset_manager_get_document_segments(st, dataset_id, uid, 0,
                                          Cardinality(DOMAIN st.segments), <<>>).data

Edited(r) == r.op = "update_segment" /\ r.status = 200
Added(r) == r.op = "add_segment" /\ r.status = 200
Listed(r) == r.op = "retrieve_document_segments" /\ r.status = "200"

\* C3: editing an existing segment with the empty content removes exactly that
\* segment: it is absent from the listing, totalItems is one less, and every
\* other segment keeps its segment_id, page_number and content.
C3_EmptyContentDeletes ==
    [][(Edited(response') /\ response'.segment["content"] = <<>>) =>
         LET before == listing(Store, response'.dataset_id, response'.uid)
             after == listing(Store', response'.dataset_id, response'.uid)
         IN  /\ after.totalItems = before.totalItems - 1
             /\ after.segments =
                  SelectSeq(before.segments,
                            LAMBDA s : s.segment_id # response'.segment_id)
             /\ Len(after.segments) = Len(before.segments) - 1]_vars

C3_Witness ==
    /\ Edited(response)
    /\ response.segment["content"] = <<>>
    /\ response.segment_id = "d1-x-0"
    /\ LET after == listing(Store, response.dataset_id, response.uid)
       IN  /\ after.totalItems >= 1
           /\ \A i \in DOMAIN after.segments : after.segments[i].page_number >= 1

\* C4: editing an existing segment with a non-empty content X replaces only the
\* content of that segment: its segment_id and page_number, totalItems and
\* every other segment are unchanged.
C4_EditReplacesContent ==
    [][(Edited(response') /\ response'.segment["content"] # <<>>) =>
         LET before == listing(Store, response'.dataset_id, response'.uid)
             after == listing(Store', response'.dataset_id, response'.uid)
         IN  /\ after.totalItems = before.totalItems
             /\ \E i \in DOMAIN before.segments :
                    before.segments[i].segment_id = response'.segment_id
             /\ after.segments =
                  [i \in DOMAIN before.segments |->
                      IF before.segments[i].segment_id = response'.segment_id
                      THEN [before.segments[i] EXCEPT
                               !.content = response'.segment["content"]]
                      ELSE before.segments[i]]]_vars

C4_Witness ==
    /\ Edited(response)
    /\ response.segment["content"] = <<"b">>
    /\ LET after == listing(Store, response.dataset_id, response.uid)
       IN  /\ after.totalItems >= 2
           /\ \E i \in DOMAIN after.segments :
                 /\ after.segments[i].segment_id = response.segment_id
                 /\ after.segments[i].content = <<"b">>
           /\ \E i \in DOMAIN after.segments : after.segments[i].content # <<"b">>

C7_QueryFilters ==
    (Listed(response) /\ response.query # <<>>) =>
        /\ response.data.totalItems =
              Cardinality({sid \in document_segments(Store, response.dataset_id,
                                                     response.uid) :
                              contains(segments[sid].content, response.query[1])})
        /\ \A i \in DOMAIN response.data.segments :
              contains(response.data.segments[i].content, response.query[1])

\* C8: for a document of N stored segments, list_segments with offset o and
\* limit l returns min(l, max(0, N - o)) segments, those at the positions
\* o .. o+l-1 of the document in ascending page_number; totalItems is N.
C8_Pagination ==
    (Listed(response) /\ response.query = <<>>) =>
        LET all == listing(Store, response.dataset_id, response.uid).segments
            N == Cardinality(document_segments(Store, response.dataset_id, response.uid))
            o == response.offset
            l == response.limit
            rest == IF N - o > 0 THEN N - o ELSE 0
            count == IF l < rest THEN l ELSE rest
            got == response.data.segments
        IN  /\ Len(got) = count
            /\ response.data.totalItems = N
            /\ Len(all) = N
            /\ \A i \in 1..(N - 1) : all[i].page_number <= all[i + 1].page_number
            /\ \A i \in 1..count : got[i] = all[o + i]

C8_Witness ==
    /\ Listed(response)
    /\ response.query = <<>>
    /\ response.offset = 1
    /\ response.limit = 1
    /\ response.data.totalItems = 3
    /\ Len(response.data.segments) = 1

(***************************************************************************)
(* Properties of the dataset endpoints (Spec).                             *)
(***************************************************************************)
Upserted == completed.kind = "upsert" /\ completed.error = ""

\* the uids a finished update left out of the documents it found
removed_uids ==
    IF completed.previous = <<>> THEN {}
    ELSE uids_of(completed.previous[1].documents) \ uids_of(completed.documents)

\* C10: after an update whose document list omits a uid that was in the
\* dataset, the dataset's documents are exactly the ones asked for, no segment
\* of the removed document is stored, and list_segments for the removed uid
\* reports that the uid is not found.
C10_RemovedDocumentIsGone ==
    (Upserted /\ removed_uids # {}) =>
        /\ uids_of(datasets[completed.id]) = uids_of(completed.documents)
        /\ Len(datasets[completed.id]) = Len(completed.documents)
        /\ \A u \in removed_uids :
              /\ document_segments(Store, completed.id, u) = {}
              /\ dataset_manager_get_document_segments(Store, completed.id, u,
                                                       0, MaxPage, <<>>).error
                    = "UID not found in dataset documents"
              /\ error_mapping("UID not found in dataset documents").status = "404"

C10_Witness ==
    /\ Upserted
    /\ removed_uids # {}
    /\ completed.documents # <<>>
    /\ \E a \in assigned : a[1] = completed.id

\* the stored segments of one document, by id
segment_records(st, dataset_id, uid) ==
    [sid \in document_segments(st, dataset_id, uid) |-> st.segments[sid]]

\* the uids an update asks for with the uid, url, type and split_option stored
unchanged_uids(previous, desired) ==
    {desired[i].uid :
        i \in {k \in DOMAIN desired :
                 \E j \in DOMAIN previous : same_document(previous[j], desired[k])}}

\* C11 (as claimed): an update in which a document is unchanged (same uid, url,
\* type and split_option as stored) does not run the pipeline on that document
\* and leaves the document's stored segments, ids and contents, as they were.
C11_UnchangedDocumentUntouched ==
    [][completed'.kind = "upsert" =>
          \A u \in unchanged_uids(stored_documents(Store, completed'.id),
                                  completed'.documents) :
              /\ u \notin completed'.ingested
              /\ segment_records(Store', completed'.id, u)
                    = segment_records(Store, completed'.id, u)]_vars

\* the documents an update asks for under a stored uid with another split_option
resplit_documents(previous, desired) ==
    {desired[i] :
        i \in {k \in DOMAIN desired :
                 \E j \in DOMAIN previous :
                    /\ previous[j].uid = desired[k].uid
                    /\ previous[j].split_option # desired[k].split_option}}

\* C12 (as claimed): after an update that changes a document's split_option the
\* stored segments of the document are exactly the ones the pipeline newly
\* produced for it: no id of the old split survives beside them.
C12_SegmentsFullyReplaced ==
    [][(completed'.kind = "upsert" /\ completed'.error = "") =>
          \A d \in resplit_documents(stored_documents(Store, completed'.id),
                                     completed'.documents) :
              segment_records(Store', completed'.id, d.uid)
                 = persist(NoKeys, completed'.id, d.uid,
                           ingest(completed'.id, d).docs)]_vars

\* C16 (as claimed): at most one background upsert runs for a dataset id at any
\* time.
C16_OneUpsertInFlight ==
    \A t1 \in running : \A t2 \in running :
        (t1.kind = "upsert" /\ t2.kind = "upsert" /\ t1.id = t2.id) => t1 = t2


(***************************************************************************)
(* SpecLoad: load_and_split_documents on one dataset of one or two         *)
(* documents of any type, the stored texts fixed.                          *)
(***************************************************************************)
\* the documents handed to the loader: either uid at either url, of any type
LoadDocuments == {d \in Documents : d.url \in Urls /\ d.split_option = SplitSmall}

LoadLists ==
    {<<d>> : d \in LoadDocuments}
        \cup {l \in LoadDocuments \X LoadDocuments : l[1].uid # l[2].uid}

InitLoad ==
    /\ processor \in Processors
    /\ gcs = StoredObjects
    /\ annotated = StoredTranscripts
    /\ p_dataset = "d1"
    /\ p_document \in {d \in StoreDocuments : d.uid = "u1" /\ d.split_option = NoKeys}
    /\ p_docs = <<>>
    /\ p_stored = NoKeys
    /\ p_prev = [docs |-> <<>>, stored |-> NoKeys]
    /\ p_raised = FALSE
    /\ p_runs = 0
    /\ celery = [state |-> "NONE"]
    /\ webhook = [state |-> "idle"]
    /\ redis = NoKeys
    /\ utils = [to_string |-> "return None"]
    /\ prompt = [op |-> "none"]
    /\ p_fetched = <<>>
    /\ l_documents \in LoadLists
    /\ datasets = NoKeys
    /\ segments = NoKeys
    /\ next_ordinal = NoKeys
    /\ assigned = {}
    /\ tasks = {}
    /\ issued = {}
    /\ response = [op |-> "none"]
    /\ completed = [kind |-> "none"]

\* load_and_split_documents([dataset]): the docs of every document, or the
\* exception of the first document without a handler and no docs at all
LoadDataset ==
    /\ p_runs < MaxRuns
    /\ LET r == load_and_split_documents(<<[id |-> p_dataset,
                                            documents |-> l_documents]>>)
       IN  /\ p_raised' = r.raised
           /\ p_fetched' = r.fetched
           /\ p_docs' = IF r.raised THEN <<>> ELSE r.docs
    /\ p_prev' = [docs |-> p_docs, stored |-> p_stored]
    /\ p_runs' = p_runs + 1
    /\ UNCHANGED <<p_dataset, p_document, p_stored, l_documents>>
    /\ UNCHANGED <<envvars, storevars, apivars>>

NextLoad == LoadDataset

SpecLoad == InitLoad /\ [][NextLoad]_vars

\* the positions of the documents no handler is registered for
unsupported(documents) ==
    {i \in DOMAIN documents : documents[i].type \notin DOMAIN handlers}

\* C13 (as claimed): in a dataset with one document of an unsupported type and
\* other, supported documents, every supported document is still ingested:
\* each segment its handler produces for it is among the segments of the load,
\* whatever the order of the documents.
C13_SiblingsStillIngested ==
    (/\ p_runs > 0
     /\ Cardinality(unsupported(l_documents)) = 1
     /\ Len(l_documents) > 1) =>
        \A i \in DOMAIN l_documents \ unsupported(l_documents) :
            LET own == handler_process(handlers[l_documents[i].type],
                                       l_documents[i], p_dataset).docs
            IN  /\ own # <<>>
                /\ \A j \in DOMAIN own : \E k \in DOMAIN p_docs : p_docs[k] = own[j]

\* C30 (as claimed): in a dataset whose documents have pairwise distinct uids,
\* the segments load_and_split_documents produces have pairwise distinct
\* urns, also when two documents share a url, so that storing them by id
\* never lets one segment overwrite another.
C30_DistinctIds ==
    (p_runs > 0 /\ ~p_raised) =>
        \A i \in DOMAIN p_docs : \A j \in DOMAIN p_docs :
            i # j => p_docs[i].metadata["urn"] # p_docs[j].metadata["urn"]


(***************************************************************************)
(* SpecWindow: requests on the one document u1 of dataset d1 while updates *)
(* of d1 are running in the executor: segment edits and adds, and reads.   *)
(***************************************************************************)
\* the document lists of the updates: u1 under either split option
WindowLists == {l \in SupportedLists : Len(l) = 1 /\ l[1].uid = "u1"}

NextWindow ==
    \/ \E documents \in WindowLists :
            save_dataset([id |-> "d1", documents |-> documents])
    \/ \E documents \in WindowLists :
            update_dataset("d1", [documents |-> documents])
    \/ \E task \in tasks : background_upsert_dataset(task)
    \/ \E segment \in {[content |-> c] : c \in EditContents \cup {<<>>}} :
            \E segment_id \in SegmentIds("d1", "u1") :
                update_segment("d1", "u1", segment_id, segment)
    \/ \E content \in AddContents : add_segment("d1", "u1", content)
    \/ get_dataset("d1")
    \/ retrieve_document_segments("d1", "u1", 0, MaxPage, <<>>)

SpecWindow == Init /\ [][NextWindow]_vars

\* the running update task re-ingests document uid of dataset dataset_id: it
\* asks for the uid with a url, type or split_option other than the stored one
reingests(task, dataset_id, uid) ==
    /\ task.kind = "upsert"
    /\ task.id = dataset_id
    /\ \E i \in DOMAIN task.documents :
          /\ task.documents[i].uid = uid
          /\ uid \in uids_of(stored_documents(Store, dataset_id))
          /\ ~same_document(find_document(stored_documents(Store, dataset_id), uid),
                            task.documents[i])

\* C17 (as claimed): no add, edit or delete of a segment is applied to a
\* document while a running dataset update is re-ingesting that document.
C17_NoMutationInWindow ==
    [][(/\ response'.op \in {"update_segment", "add_segment"}
        /\ response'.status = 200
        /\ segments' # segments) =>
           ~\E task \in running :
               reingests(task, response'.dataset_id, response'.uid)]_vars

\* the store a finished background task leaves
task_result(task) ==
    IF task.kind = "upsert"
    THEN dataset_manager_upsert_dataset(Store, task.id, task).store
    ELSE dataset_manager_save_dataset(Store, task).store

max_retries == 3
\* self.retry(countdown=60)
retry_countdown == 60

\* background_upsert_dataset.delay(id, dataset_info): the task is sent to the
\* app, its request at retries 0
delay(id, dataset_info) ==
    /\ celery.state \in {"NONE", "SUCCESS"}
    /\ celery' = [state |-> "PENDING", id |-> id, documents |-> dataset_info.documents,
                  retries |-> 0, executions |-> 0, countdown |-> 0, waited |-> 0]
    /\ completed' = [kind |-> "none"]
    /\ UNCHANGED <<processor, gcs, annotated, webhook, promptvars, pvars, storevars, tasks, issued, response>>

\* the countdown of a retry runs out
elapse ==
    /\ celery.state = "RETRY"
    /\ celery.waited < celery.countdown
    /\ celery' = [celery EXCEPT !.waited = celery.countdown]
    /\ UNCHANGED <<processor, gcs, annotated, webhook, promptvars, pvars, storevars, apivars>>

\* one execution of the celery task background_upsert_dataset by a worker.  An
\* exception of the manager is logged and self.retry is called: it raises Retry
\* (the task is sent again, 60 s ahead, its retries one higher) unless the
\* retries are used up, when it raises MaxRetriesExceededError, which the task
\* swallows, so that it returns and ends in the state SUCCESS.
celery_background_upsert_dataset ==
    /\ celery.state \in {"PENDING", "RETRY"}
    /\ celery.waited >= celery.countdown
    /\ LET r == dataset_manager_upsert_dataset(Store, celery.id, celery)
           again == r.error # "" /\ ~(celery.retries + 1 > max_retries)
       IN  /\ install(r.store)
           /\ celery' = [celery EXCEPT
                            !.executions = @ + 1,
                            !.state = IF again THEN "RETRY" ELSE "SUCCESS",
                            !.retries = IF again THEN @ + 1 ELSE @,
                            !.countdown = IF again THEN retry_countdown ELSE 0,
                            !.waited = 0]
           /\ completed' = [kind |-> "celery", id |-> celery.id,
                            documents |-> celery.documents, error |-> r.error,
                            ingested |-> r.ingested,
                            previous |-> dataset_manager_get_datasets(Store, celery.id)]
    /\ response' = [op |-> "none"]
    /\ UNCHANGED <<processor, gcs, annotated, webhook, promptvars, pvars, tasks, issued>>

NextRetry ==
    \/ \E documents \in ShortLists : delay("d1", [documents |-> documents])
    \/ elapse
    \/ celery_background_upsert_dataset
    \/ \E documents \in ShortLists : update_dataset("d1", [documents |-> documents])
    \/ \E task \in tasks : background_upsert_dataset(task)
    \/ get_dataset("d1")

SpecRetry == Init /\ [][NextRetry]_vars

\* C19 (as claimed): a background ingestion that fails is tried again, 60 s
\* later, as long as retries are left; upsert_dataset is executed at most
\* 1 + max_retries times for one task, after which the task has ended without
\* raising.
C19_FailedIngestionRetried ==
    /\ celery.state # "NONE" => celery.executions <= 1 + max_retries
    /\ (completed.kind = "celery" /\ completed.error # "") =>
          \/ celery.state = "RETRY" /\ celery.countdown = retry_countdown
          \/ celery.state = "SUCCESS" /\ celery.executions = 1 + max_retries
    /\ (completed.kind = "upsert" /\ completed.error # "") =>
          \E task \in tasks :
              /\ task.kind = "upsert"
              /\ task.id = completed.id
              /\ task.documents = completed.documents

\* the background work for an update has failed and will not be tried again
failed_for_good ==
    /\ completed.kind \in {"upsert", "celery"}
    /\ completed.error # ""
    /\ completed.kind = "celery" => celery.state = "SUCCESS"

\* the dataset as get_datasets returns it carries an error field
error_marker(st, id) ==
    LET dataset == dataset_manager_get_datasets(st, id)
    IN  dataset # <<>> /\ "error" \in DOMAIN dataset[1]

\* C20 (as claimed): no failed attempt writes anything, and once the background
\* ingestion has failed for good the dataset is as it was before the update
\* and carries an error marker.
C20_FailureLeavesMarker ==
    [][/\ (completed'.kind \in {"upsert", "celery"} /\ completed'.error # "") =>
             Store' = Store
       /\ failed_for_good' => error_marker(Store', completed'.id)]_vars


(***************************************************************************)
(* SpecWebhook: WebhookHandler.update_status under its tenacity retry      *)
(* decorator, against an endpoint that answers each POST as it likes.      *)
(***************************************************************************)
\* stop=stop_after_attempt(3)
stop_after_attempt == 3
\* wait=wait_fixed(2)
wait_fixed == 2

\* what one requests.post can come to: a response with its status code, or
\* an exception of requests before any response (status_code 0 then)
Outcomes ==
    {[exception |-> "", status_code |-> c] : c \in {200, 404, 500}}
        \cup {[exception |-> "ConnectionError", status_code |-> 0]}
Statuses == {0, 1, 2}

\* the attempt raised: requests.post itself, or response.raise_for_status()
\* for a status code from 400 on
attempt_raises(outcome) == outcome.exception # "" \/ outcome.status_code >= 400

\* tenacity asking for one attempt more than stop_after_attempt allows
stop_late(attempt_number) == attempt_number > stop_after_attempt

\* the stop condition of the decorator, asked after a failed attempt
stop(attempt_number) == attempt_number >= stop_after_attempt

\* update_status(dataset_id, status) is called: the first attempt is due
call_update_status(dataset_id, status) ==
    /\ webhook.state \in {"idle", "returned", "raised"}
    /\ webhook' = [state |-> "attempting", dataset_id |-> dataset_id, status |-> status,
                   attempt_number |-> 1, posts |-> <<>>, slept |-> <<>>, logged |-> 0]
    /\ UNCHANGED <<processor, gcs, annotated, celery, promptvars, pvars, storevars, apivars>>

\* one attempt: the body of update_status posts the payload; it returns when
\* the attempt does not raise; else after_log logs, and the decorator either
\* sleeps for the fixed wait or, at the stop condition, raises the exception
\* of the last attempt to the caller (reraise=True)
update_status(outcome) ==
    /\ webhook.state = "attempting"
    /\ webhook' =
          [webhook EXCEPT
              !.posts = Append(@, outcome),
              !.logged = IF attempt_raises(outcome) THEN @ + 1 ELSE @,
              !.state = IF ~attempt_raises(outcome) THEN "returned"
                        ELSE IF stop(webhook.attempt_number) THEN "raised"
                        ELSE "sleeping"]
    /\ UNCHANGED <<processor, gcs, annotated, celery, promptvars, pvars, storevars, apivars>>

\* the wait between two attempts is over
wake ==
    /\ webhook.state = "sleeping"
    /\ webhook' = [webhook EXCEPT !.state = "attempting",
                                  !.attempt_number = @ + 1,
                                  !.slept = Append(@, wait_fixed)]
    /\ UNCHANGED <<processor, gcs, annotated, celery, promptvars, pvars, storevars, apivars>>

NextWebhook ==
    \/ \E dataset_id \in DatasetIds, status \in Statuses :
            call_update_status(dataset_id, status)
    \/ \E outcome \in Outcomes : update_status(outcome)
    \/ wake

SpecWebhook == Init /\ [][NextWebhook]_vars

\* C21: one call of update_status posts at most 3 times, waits the same fixed
\* time before every attempt after the first, and posts nothing after an
\* attempt that succeeded: every attempt but the last one failed.
C21_AtMostThreePosts ==
    webhook.state # "idle" =>
        /\ Len(webhook.posts) <= stop_after_attempt
        /\ Len(webhook.posts) <= webhook.attempt_number
        /\ Len(webhook.slept) = webhook.attempt_number - 1
        /\ \A i \in DOMAIN webhook.slept : webhook.slept[i] = wait_fixed
        /\ \A i \in DOMAIN webhook.posts :
              i < Len(webhook.posts) => attempt_raises(webhook.posts[i])
        /\ webhook.state = "returned" =>
              ~attempt_raises(webhook.posts[Len(webhook.posts)])

\* a call that succeeded at its third attempt
C21_Witness ==
    /\ webhook.state = "returned"
    /\ Len(webhook.posts) = stop_after_attempt
    /\ Len(webhook.slept) = 2

\* C22 (as claimed): when every attempt of a call has failed, the failures
\* are logged and the call returns to its caller without raising.
C22_FailureOnlyLogged ==
    (/\ webhook.state \in {"returned", "raised"}
     /\ \A i \in DOMAIN webhook.posts : attempt_raises(webhook.posts[i])) =>
        /\ webhook.logged = Len(webhook.posts)
        /\ webhook.state = "returned"


(***************************************************************************)
(* Further properties of the dataset endpoints (Spec).                     *)
(***************************************************************************)
\* C23: every stored segment belongs to a document in the document list of
\* its dataset, which exists (documents are held in their dataset's record,
\* so none is without a dataset); after delete_dataset(id) neither the dataset
\* nor any segment or ordinal of it is stored.
C23_NoOrphans ==
    /\ \A sid \in DOMAIN segments :
          /\ segments[sid].dataset_id \in DOMAIN datasets
          /\ segments[sid].uid \in uids_of(datasets[segments[sid].dataset_id])
    /\ \A k \in DOMAIN next_ordinal :
          k[1] \in DOMAIN datasets /\ k[2] \in uids_of(datasets[k[1]])
    /\ response.op = "delete_dataset" =>
          /\ response.id \notin DOMAIN datasets
          /\ dataset_segments(Store, response.id) = {}

\* a dataset was deleted while another one holds the segments of its document
C23_Witness ==
    /\ response.op = "delete_dataset"
    /\ response.id \notin DOMAIN datasets
    /\ \E id \in DOMAIN datasets : dataset_segments(Store, id) # {}

\* the documents, segments, ordinals and ids of the datasets other than id
others(st, id) ==
    [datasets |-> without(st.datasets, {id}),
     segments |-> without(st.segments, dataset_segments(st, id)),
     next_ordinal |-> without(st.next_ordinal, {<<id, u>> : u \in Uids}),
     assigned |-> {a \in st.assigned : a[1] # id}]

\* C24: delete_dataset answers status 200 whether the id is stored or not,
\* leaves every other dataset as it was, and changes nothing at all when the id
\* is not stored (so that a second delete of an id is a success without effect).
C24_DeleteIdempotent ==
    [][response'.op = "delete_dataset" =>
          /\ response'.status = 200
          /\ others(Store', response'.id) = others(Store, response'.id)
          /\ response'.id \notin DOMAIN datasets => Store' = Store]_vars

\* the id d1 is deleted and is not stored, the dataset d2 is stored
C24_Witness ==
    /\ response.op = "delete_dataset"
    /\ response.status = 200
    /\ response.id = "d1"
    /\ "d2" \in DOMAIN datasets

\* C25 (as claimed): create_dataset keeps the id of a dataset submitted with
\* one and gives a new id to a dataset submitted without; the id of the
\* response is the id the dataset is stored under.
C25_IdAssignedIfAbsent ==
    /\ response.op = "create_dataset" =>
          /\ response.submitted # "" => response.data.id = response.submitted
          /\ response.submitted = "" => response.data.id \in issued
          /\ \E task \in tasks : task.kind = "create" /\ task.id = response.data.id
    /\ \A t1 \in tasks : \A t2 \in tasks :
          (t1.kind = "create" /\ t2.kind = "create" /\ t1.id = t2.id) => t1 = t2

\* C26: list_segments for a dataset id that is not stored answers "Dataset not
\* found" with status 404; for a stored dataset and a uid that is none of its
\* documents it answers "UID not found in dataset documents" with status 404;
\* in both cases the data is None and nothing stored changes.
C26_ListValidates ==
    [][response'.op = "retrieve_document_segments" =>
          /\ Store' = Store
          /\ response'.dataset_id \notin DOMAIN datasets =>
                /\ response'.message = "Dataset not found"
                /\ response'.status = "404"
                /\ response'.data = <<>>
          /\ (/\ response'.dataset_id \in DOMAIN datasets
              /\ response'.uid \notin uids_of(stored_documents(Store, response'.dataset_id))) =>
                /\ response'.message = "UID not found in dataset documents"
                /\ response'.status = "404"
                /\ response'.data = <<>>]_vars

\* list_segments answered for a uid that the stored dataset does not hold
C26_Witness ==
    /\ response.op = "retrieve_document_segments"
    /\ response.message = "UID not found in dataset documents"
    /\ response.dataset_id \in DOMAIN datasets
    /\ datasets[response.dataset_id] # <<>>

\* the latest request was answered after the manager raised: list_segments
\* without success, or a handler that reports the manager's error as detail
manager_raised ==
    /\ response.op \in {"get_dataset", "retrieve_document_segments",
                         "update_segment", "delete_dataset"}
    /\ IF response.op = "retrieve_document_segments" THEN response.status # "200"
       ELSE "detail" \in DOMAIN response

\* C27 (as claimed): an error of the dataset manager in get_dataset,
\* list_segments, update_segment or delete_dataset never leaves the handler as
\* an exception: the handler returns a response with status, message and data.
C27_ErrorsBecomeResponses ==
    manager_raised =>
        /\ "exception" \notin DOMAIN response
        /\ {"status", "message", "data"} \subseteq DOMAIN response

\* C28 (as claimed): the page_size stored for a document is the number of
\* segments stored for it, which is the totalItems of an unfiltered
\* list_segments.
C28_PageSizeIsSegmentCount ==
    \A id \in DOMAIN datasets : \A i \in DOMAIN datasets[id] :
        LET document == datasets[id][i]
        IN  /\ document.page_size
                  = Cardinality(document_segments(Store, id, document.uid))
            /\ document.page_size
                  = dataset_manager_get_document_segments(
                        Store, id, document.uid, 0, MaxPage, <<>>).data.totalItems

\* C31: an update_segment request whose body has no key content is answered
\* with status 400 "content is required" as a returned body, and the manager
\* is not reached: the store is as before, so no segment is edited or deleted
\* and every document keeps its segment count.
C31_MissingContentRejected ==
    [][(response'.op = "update_segment" /\ "content" \notin DOMAIN response'.segment) =>
         /\ response'.status = 400
         /\ response'.message = "content is required"
         /\ "exception" \notin DOMAIN response'
         /\ Store' = Store
         /\ \A uid \in Uids :
               document_segments(Store', response'.dataset_id, uid)
                 = document_segments(Store, response'.dataset_id, uid)]_vars

C31_Witness ==
    /\ response.op = "update_segment"
    /\ "content" \notin DOMAIN response.segment
    /\ response.status = 400
    /\ response.dataset_id \in DOMAIN datasets
    /\ response.segment_id \in document_segments(Store, response.dataset_id, response.uid)
    /\ Cardinality(document_segments(Store, response.dataset_id, response.uid)) >= 2


(***************************************************************************)
(* PromptManagerMixin (models/prompt_manager/manager.py) over self.redis.  *)
(* Python values are records of a type and a value; the redis client       *)
(* encodes a str it stores and returns bytes, or None for a missing key.   *)
(***************************************************************************)
None == [type |-> "NoneType", value |-> ""]
str(s) == [type |-> "str", value |-> s]
bytes(s) == [type |-> "bytes", value |-> s]

SessionIds == {"s1", "s2"}
OutputKeys == {"k1"}
Outputs == {"", "a", "b"}

\* utils.base.to_string on None: the module is not in src
ToStringBuilds == {"return None", "return ''", "return str(content)", "raise"}

\* a call that returned value, and one that raised
returned(value) == [raised |-> "", value |-> value]
raised(exception) == [raised |-> exception, value |-> None]

\* redis.get(name)
redis_get(db, name) == IF name \in DOMAIN db THEN db[name] ELSE None

\* redis.set(name, value): bytes and str are stored as bytes, None is refused
\* by the encoder of the client (DataError)
redis_set(db, name, value) ==
    IF value.type = "NoneType" THEN [raised |-> "DataError", db |-> db]
    ELSE [raised |-> "",
          db |-> [n \in DOMAIN db \cup {name} |->
                     IF n = name THEN bytes(value.value) ELSE db[n]]]

\* utils.base.to_string(content): bytes are decoded, a str is kept
to_string(content) ==
    IF content.type = "bytes" THEN returned(str(content.value))
    ELSE IF content.type = "str" THEN returned(content)
    ELSE IF utils.to_string = "return None" THEN returned(None)
    ELSE IF utils.to_string = "return ''" THEN returned(str(""))
    ELSE IF utils.to_string = "return str(content)" THEN returned(str("None"))
    ELSE raised("AttributeError")

get_chain_output_urn(session_id, output_key, reload) ==
    IF reload THEN "reload_output:" \o session_id \o ":" \o output_key
    ELSE "output:" \o session_id \o ":" \o output_key

\* get_chain_output on the store db
get_chain_output(db, session_id, output_key, reload) ==
    to_string(redis_get(db, get_chain_output_urn(session_id, output_key, reload)))

\* the store after the last redis.set of save_chain_output
set_output(db, session_id, output_key, output) ==
    redis_set(db, get_chain_output_urn(session_id, output_key, FALSE), output)

\* the call of save_chain_output as prompt records it
output_call(session_id, output_key, output, reload, exception) ==
    [op |-> "save_chain_output", session_id |-> session_id, output_key |-> output_key,
     output |-> output, reload |-> reload, raised |-> exception]

\* save_chain_output that writes the new output before it reads the current one
save_chain_output_late(session_id, output_key, output, reload) ==
    LET primary == set_output(redis, session_id, output_key, str(output))
        current_output == get_chain_output(primary.db, session_id, output_key, FALSE)
        backup == IF reload \/ current_output.raised # ""
                  THEN [raised |-> current_output.raised, db |-> primary.db]
                  ELSE redis_set(primary.db,
                                 get_chain_output_urn(session_id, output_key, TRUE),
                                 current_output.value)
    IN  /\ redis' = backup.db
        /\ prompt' = output_call(session_id, output_key, output, reload, backup.raised)
        /\ UNCHANGED <<processor, gcs, annotated, celery, webhook, utils>>
        /\ UNCHANGED <<pvars, storevars, apivars>>

\* save_chain_output(session_id, output_key, output, reload): an exception of
\* get_chain_output or of a redis.set ends the call where it is raised
save_chain_output(session_id, output_key, output, reload) ==
    LET current_output == get_chain_output(redis, session_id, output_key, FALSE)
        backup == IF reload THEN [raised |-> "", db |-> redis]
                  ELSE IF current_output.raised # ""
                  THEN [raised |-> current_output.raised, db |-> redis]
                  ELSE redis_set(redis,
                                 get_chain_output_urn(session_id, output_key, TRUE),
                                 current_output.value)
        primary == IF backup.raised # "" THEN backup
                   ELSE set_output(backup.db, session_id, output_key, str(output))
    IN  /\ redis' = primary.db
        /\ prompt' = output_call(session_id, output_key, output, reload, primary.raised)
        /\ UNCHANGED <<processor, gcs, annotated, celery, webhook, utils>>
        /\ UNCHANGED <<pvars, storevars, apivars>>

InitPrompt ==
    /\ processor = "document_processor"
    /\ gcs = StoredObjects
    /\ annotated = StoredTranscripts
    /\ celery = [state |-> "NONE"]
    /\ webhook = [state |-> "idle"]
    /\ redis = NoKeys
    /\ utils \in [to_string : ToStringBuilds]
    /\ prompt = [op |-> "none"]
    /\ p_dataset = "d1"
    /\ p_document = CHOOSE d \in StoreDocuments : d.uid = "u1" /\ d.split_option = NoKeys
    /\ p_docs = <<>>
    /\ p_stored = NoKeys
    /\ p_prev = [docs |-> <<>>, stored |-> NoKeys]
    /\ p_raised = FALSE
    /\ p_runs = 0
    /\ p_fetched = <<>>
    /\ l_documents = <<>>
    /\ datasets = NoKeys
    /\ segments = NoKeys
    /\ next_ordinal = NoKeys
    /\ assigned = {}
    /\ tasks = {}
    /\ issued = {}
    /\ response = [op |-> "none"]
    /\ completed = [kind |-> "none"]

(***************************************************************************)
(* SpecOutput: save_chain_output calls on the outputs of two sessions.     *)
(***************************************************************************)
NextOutput ==
    \E session_id \in SessionIds, output_key \in OutputKeys, output \in Outputs,
       reload \in BOOLEAN :
        save_chain_output(session_id, output_key, output, reload)

SpecOutput == InitPrompt /\ [][NextOutput]_vars

\* what a call of save_chain_output that returned was about
Saved(call, reload) ==
    call.op = "save_chain_output" /\ call.raised = "" /\ call.reload = reload

\* C32: after save_chain_output(s, k, v, reload=False) has returned,
\* get_chain_output(s, k) returns v and get_chain_output(s, k, reload=True)
\* returns what get_chain_output(s, k) returned right before the call; after
\* save_chain_output(s, k, v, reload=True) the primary value is v and the
\* backup value is as before.
C32_OneStepBackup ==
    [][LET s == prompt'.session_id
           k == prompt'.output_key
       IN  /\ Saved(prompt', FALSE) =>
                /\ get_chain_output(redis', s, k, FALSE) = returned(str(prompt'.output))
                /\ get_chain_output(redis', s, k, TRUE)
                     = get_chain_output(redis, s, k, FALSE)
           /\ Saved(prompt', TRUE) =>
                /\ get_chain_output(redis', s, k, FALSE) = returned(str(prompt'.output))
                /\ get_chain_output(redis', s, k, TRUE)
                     = get_chain_output(redis, s, k, TRUE)]_vars

\* a save without reload over a stored output, whose backup now differs from
\* the primary value
C32_Witness ==
    /\ Saved(prompt, FALSE)
    /\ get_chain_output(redis, prompt.session_id, prompt.output_key, FALSE)
         = returned(str("b"))
    /\ get_chain_output(redis, prompt.session_id, prompt.output_key, TRUE)
         = returned(str("a"))


(***************************************************************************)
(* Chain memory: the list of {"input", "output"} entries a session keeps   *)
(* for a chain key, stored as JSON text.                                   *)
(***************************************************************************)
MaxMemory == 2

HUMAN == "Human:"

\* the session and the chain keys of the memory checks; an input is a
\* sequence of characters in which the marker "Human:" is one element
MemorySessions == {"s1"}
ChainKeys == {"k1", "k2"}
MemoryOutputs == {"a", "b"}
Contents ==
    {[input |-> i, output |-> o, chain_key |-> "k1"] :
        i \in {<<"a">>, <<HUMAN, SP, "a">>, <<"b">>}, o \in MemoryOutputs}
      \cup {[input |-> <<"a", HUMAN, "b", SP>>, output |-> "a", chain_key |-> "k2"]}
\* lists of one content, and of two that end with a marked input for k1 or
\* with the content for k2
ContentLists ==
    {<<c>> : c \in Contents}
      \cup {l \in Contents \X Contents :
               l[2].chain_key = "k2" \/ (l[2].input[1] = HUMAN /\ l[2].output = "b")}

\* json.dumps of a memory list: every entry becomes its pairs of key and value
json_dumps(memory) ==
    [type |-> "str",
     value |-> [i \in DOMAIN memory |->
                   <<<<"input", memory[i].input>>, <<"output", memory[i].output>>>>]]

\* json.loads of the text of a memory list
json_loads(text) ==
    [i \in DOMAIN text.value |->
        [input |-> text.value[i][1][2], output |-> text.value[i][2][2]]]

get_chain_memory_urn(session_id, output_key, reload) ==
    IF reload THEN "reload_memory:" \o session_id \o "-" \o output_key
    ELSE "memory:" \o session_id \o "-" \o output_key

\* get_chain_memory on the store db: the list of a stored, non-empty text,
\* else the empty list
get_chain_memory(db, session_id, output_key, reload) ==
    LET current_chain_memory ==
            redis_get(db, get_chain_memory_urn(session_id, output_key, reload))
    IN  IF current_chain_memory.type = "bytes" /\ current_chain_memory.value # <<>>
        THEN json_loads(current_chain_memory)
        ELSE <<>>

\* get_human_input, local to save_chain_memory
get_human_input(content) ==
    IF \E i \in DOMAIN content.input : content.input[i] = HUMAN
    THEN strip(split(content.input, HUMAN)[2])
    ELSE content.input

\* the first loop of save_chain_memory: the current list of every content's
\* chain key goes to its reload key
RECURSIVE backup_memory(_, _, _)
backup_memory(db, session_id, contents) ==
    IF contents = <<>> THEN db
    ELSE LET content == Head(contents)
             current_chain_memory ==
                 get_chain_memory(db, session_id, content.chain_key, FALSE)
         IN  backup_memory(
                 redis_set(db, get_chain_memory_urn(session_id, content.chain_key, TRUE),
                           json_dumps(current_chain_memory)).db,
                 session_id, Tail(contents))

\* the entry save_chain_memory builds of a content
entry(content) == [input |-> get_human_input(content), output |-> content.output]

\* the body of the second loop without the comparison of line 62
remember_every(current_chain_memory, content) ==
    Append(current_chain_memory, entry(content))

\* the body of the second loop of save_chain_memory, on the list it read
remember(current_chain_memory, content) ==
    IF current_chain_memory = <<>> THEN Append(current_chain_memory, entry(content))
    ELSE LET last == Len(current_chain_memory)
             current_input == current_chain_memory[last].input
         IN  IF current_input = get_human_input(content)
             THEN [current_chain_memory EXCEPT ![last].output = content.output]
             ELSE Append(current_chain_memory, entry(content))

\* the second loop of save_chain_memory
RECURSIVE update_memory(_, _, _)
update_memory(db, session_id, contents) ==
    IF contents = <<>> THEN db
    ELSE LET content == Head(contents)
             current_chain_memory ==
                 get_chain_memory(db, session_id, content.chain_key, FALSE)
         IN  update_memory(
                 redis_set(db, get_chain_memory_urn(session_id, content.chain_key, FALSE),
                           json_dumps(remember(current_chain_memory, content))).db,
                 session_id, Tail(contents))

\* save_chain_memory(session_id, contents, reload)
save_chain_memory(session_id, contents, reload) ==
    LET db == update_memory(IF reload THEN redis
                            ELSE backup_memory(redis, session_id, contents),
                            session_id, contents)
    IN  /\ redis' = db
        /\ \A k \in ChainKeys :
              Len(get_chain_memory(redis', session_id, k, FALSE)) <= MaxMemory
        /\ prompt' = [op |-> "save_chain_memory", session_id |-> session_id,
                      contents |-> contents, reload |-> reload]
        /\ UNCHANGED <<processor, gcs, annotated, celery, webhook, utils>>
        /\ UNCHANGED <<pvars, storevars, apivars>>

(***************************************************************************)
(* SpecMemory: save_chain_memory calls from the empty store.               *)
(***************************************************************************)
NextMemory ==
    \E session_id \in MemorySessions, contents \in ContentLists, reload \in BOOLEAN :
        save_chain_memory(session_id, contents, reload)

\* save_chain_memory does not call to_string: one build stands for all
InitMemory == InitPrompt /\ utils.to_string = "return None"

SpecMemory == InitMemory /\ [][NextMemory]_vars

\* the contents of a call that are for chain key k, in order
contents_for(contents, k) == SelectSeq(contents, LAMBDA c : c.chain_key = k)

\* C33: from the empty store on, no memory list has two consecutive entries
\* with the same input; a call with one item whose human input equals the
\* input of the last stored entry overwrites the output of that entry and
\* appends nothing, any other one-item call appends exactly one entry; no
\* call shortens a list or changes an entry before the last one.
C33_NoRepeatedInput ==
    [][prompt'.op = "save_chain_memory" =>
         \A k \in ChainKeys :
            LET before == get_chain_memory(redis, prompt'.session_id, k, FALSE)
                after == get_chain_memory(redis', prompt'.session_id, k, FALSE)
                items == contents_for(prompt'.contents, k)
            IN  /\ \A i \in 1..(Len(after) - 1) : after[i].input # after[i + 1].input
                /\ Len(after) >= Len(before)
                /\ Len(after) <= Len(before) + Len(items)
                /\ \A i \in 1..(Len(before) - 1) : after[i] = before[i]
                /\ before # <<>> => after[Len(before)].input = before[Len(before)].input
                /\ items = <<>> => after = before
                /\ Len(items) = 1 =>
                     IF before # <<>>
                        /\ before[Len(before)].input = get_human_input(items[1])
                     THEN after = [before EXCEPT ![Len(before)].output = items[1].output]
                     ELSE after = Append(before, [input |-> get_human_input(items[1]),
                                                  output |-> items[1].output])]_vars

\* a one-item call that has overwritten the output of the last of two entries,
\* its input written with the marker "Human:"
C33_Witness ==
    /\ prompt.op = "save_chain_memory"
    /\ Len(prompt.contents) = 1
    /\ prompt.contents[1].input = <<HUMAN, SP, "a">>
    /\ LET memory == get_chain_memory(redis, prompt.session_id, "k1", FALSE)
           backup == get_chain_memory(redis, prompt.session_id, "k1", TRUE)
       IN  /\ Len(memory) = 2
           /\ Len(backup) = 2
           /\ memory[2].input = <<"a">>
           /\ memory[2].output = prompt.contents[1].output
           /\ backup[2].output # memory[2].output
====
